---------------------------- MODULE Spec2Model ----------------------------
(***************************************************************************)
(* Model of src/main.py: the subtitle timing engine of the fact-video      *)
(* generator (sentence segmenter, word-timing estimator, sentence grouper, *)
(* ASS cue synthesizer) and the generate_video request that drives it.     *)
(*                                                                         *)
(* Text is a sequence of one-character strings.  Times are integers in     *)
(* ticks, Scale ticks to the second; Scale is chosen so that, for every    *)
(* duration that is a multiple of half a millisecond, every product and    *)
(* quotient the estimator forms is exact, so the model computes in exact   *)
(* rational arithmetic what the code computes in binary floating point     *)
(* (the two can differ only where the code compares two values that are    *)
(* exactly equal, or rounds a value lying exactly on a half centisecond).  *)
(***************************************************************************)
EXTENDS Integers, Sequences, FiniteSets, TLC

VARIABLES pc, fact, effect, safe_fact, sentences, duration, word_timings,
          sentence_timings, sentence_word_groups, word_index, doc, outcome,
          tasks, results, audio_result, encoder, files, stream

\* what the request holds outside the subtitle engine: the image tasks of
\* the worker pool and the results collected from them, what generate_audio
\* returned, what the encoder did, the temp files on disk and the state of
\* the response body
env_vars == <<tasks, results, audio_result, encoder, files, stream>>

vars == <<pc, fact, effect, safe_fact, sentences, duration, word_timings,
          sentence_timings, sentence_word_groups, word_index, doc, outcome,
          tasks, results, audio_result, encoder, files, stream>>

-----------------------------------------------------------------------------
(* Bounds of the model *)

\* longest fact, in words, built from the vocabulary
MaxWords == 3

-----------------------------------------------------------------------------
(* Time base *)

Max(a, b) == IF a >= b THEN a ELSE b

RECURSIVE Gcd(_, _)
Gcd(a, b) == IF b = 0 THEN a ELSE Gcd(b, a % b)

RECURSIVE LcmUpTo(_)
LcmUpTo(n) == IF n <= 1 THEN 1
              ELSE LET l == LcmUpTo(n - 1) IN (l * n) \div Gcd(l, n)

\* ticks per second: half a millisecond is a multiple of 100 ticks and of
\* 100 times every possible word count
Scale == 200000 * LcmUpTo(Max(MaxWords, 7))

\* k tenths of a second / k milliseconds / k half milliseconds, in ticks
Tenths(k) == k * (Scale \div 10)
Millis(k) == k * (Scale \div 1000)
HalfMillis(k) == k * (Scale \div 2000)

-----------------------------------------------------------------------------
(* Python string primitives *)

Whitespace == {" ", "\t", "\n", "\r"}

UpperCase == <<"A","B","C","D","E","F","G","H","I","J","K","L","M",
               "N","O","P","Q","R","S","T","U","V","W","X","Y","Z">>
LowerCase == <<"a","b","c","d","e","f","g","h","i","j","k","l","m",
               "n","o","p","q","r","s","t","u","v","w","x","y","z">>

\* str.lower() on one character
LowerChar(c) == IF \E i \in 1..26 : UpperCase[i] = c
                THEN LowerCase[CHOOSE i \in 1..26 : UpperCase[i] = c]
                ELSE c

\* str.lower()
Lower(s) == [i \in 1..Len(s) |-> LowerChar(s[i])]

\* str.strip(chars): drop leading and trailing characters of the set cs
StripSet(s, cs) ==
    LET keep == {i \in 1..Len(s) : s[i] \notin cs}
    IN IF keep = {} THEN <<>>
       ELSE SubSeq(s, CHOOSE i \in keep : \A j \in keep : i <= j,
                      CHOOSE i \in keep : \A j \in keep : i >= j)

\* str.strip()
Strip(s) == StripSet(s, Whitespace)

RECURSIVE SplitFrom(_, _, _, _)
SplitFrom(s, i, cur, acc) ==
    IF i > Len(s)
    THEN (IF cur = <<>> THEN acc ELSE Append(acc, cur))
    ELSE IF s[i] \in Whitespace
         THEN SplitFrom(s, i + 1, <<>>,
                        IF cur = <<>> THEN acc ELSE Append(acc, cur))
         ELSE SplitFrom(s, i + 1, Append(cur, s[i]), acc)

\* str.split(): the maximal runs of non-whitespace characters
Split(s) == SplitFrom(s, 1, <<>>, <<>>)

RECURSIVE Join(_, _)
\* sep.join(parts)
Join(parts, sep) ==
    IF parts = <<>> THEN <<>>
    ELSE IF Len(parts) = 1 THEN parts[1]
    ELSE parts[1] \o sep \o Join(Tail(parts), sep)

\* s[:n]
Take(s, n) == SubSeq(s, 1, IF Len(s) < n THEN Len(s) ELSE n)

\* any(punc in w for punc in cs)
ContainsAny(w, cs) == \E i \in 1..Len(w) : w[i] \in cs

-----------------------------------------------------------------------------
(* Sentence segmenter *)

Terminal == {".", "!", "?"}

\* first index >= i of s that is not whitespace (Len(s)+1 if none)
RECURSIVE SkipSpace(_, _)
SkipSpace(s, i) == IF i <= Len(s) /\ s[i] \in Whitespace
                   THEN SkipSpace(s, i + 1) ELSE i

RECURSIVE ReSplitFrom(_, _, _, _)
ReSplitFrom(s, i, cur, acc) ==
    IF i > Len(s) THEN Append(acc, cur)
    ELSE IF s[i] \in Whitespace /\ i > 1 /\ s[i - 1] \in Terminal
         THEN ReSplitFrom(s, SkipSpace(s, i), <<>>, Append(acc, cur))
         ELSE ReSplitFrom(s, i + 1, Append(cur, s[i]), acc)

\* re.split(r'(?<=[.!?])\s+', s)
re_split(s) == ReSplitFrom(s, 1, <<>>, <<>>)

RECURSIVE KeepLong(_)
KeepLong(parts) ==
    IF parts = <<>> THEN <<>>
    ELSE IF Len(Strip(Head(parts))) > 5
         THEN <<Strip(Head(parts))>> \o KeepLong(Tail(parts))
         ELSE KeepLong(Tail(parts))

split_into_sentences(text) == KeepLong(re_split(Strip(text)))

-----------------------------------------------------------------------------
(* Word-timing estimator *)

short_words == { <<"t","h","e">>, <<"a">>, <<"a","n">>, <<"a","n","d">>,
                 <<"o","r">>, <<"b","u","t">>, <<"i","n">>, <<"o","n">>,
                 <<"a","t">>, <<"t","o">>, <<"f","o","r">>, <<"o","f">>,
                 <<"w","i","t","h">>, <<"b","y">> }

\* the complexity multiplier of a word, in tenths
Complexity(word) ==
    LET word_lower == StripSet(Lower(word), {".", ",", "!", "?", ";", ":", "\""})
    IN IF word_lower \in short_words THEN 3
       ELSE IF Len(word_lower) <= 3 THEN 3
       ELSE IF Len(word_lower) <= 5 THEN 5
       ELSE IF Len(word_lower) <= 8 THEN 8
       ELSE 12

\* the pause multiplier of word i, in tenths
PauseMultiplier(words, i) ==
    IF i > 1 /\ ContainsAny(words[i - 1], {",", ";"}) THEN 13
    ELSE IF i > 1 /\ ContainsAny(words[i - 1], {".", "!", "?"}) THEN 16
    ELSE 10

\* the duration given to word i when the clock stands at current_time
WordDuration(words, i, dur, current_time) ==
    LET base_time_per_word == dur \div Len(words)
        word_duration == (base_time_per_word \div 100) * Complexity(words[i])
                             * PauseMultiplier(words, i)
    IN IF current_time + word_duration > dur - Tenths(1)
       THEN dur - current_time - Tenths(1)
       ELSE word_duration

RECURSIVE TimingsFrom(_, _, _, _, _)
TimingsFrom(words, i, dur, current_time, timings) ==
    IF i > Len(words) THEN timings
    ELSE LET end_time == current_time + WordDuration(words, i, dur, current_time)
             entry == [word |-> words[i], start |-> current_time, end |-> end_time]
         IN TimingsFrom(words, i + 1, dur,
                        IF i < Len(words) THEN end_time + Millis(50) ELSE end_time,
                        Append(timings, entry))

\* analyze_speech_pattern without the leading buffer
analyze_speech_pattern_FromZero(text, dur) ==
    LET words == Split(text)
    IN IF words = <<>> THEN <<>>
       ELSE TimingsFrom(words, 1, dur, 0, <<>>)

analyze_speech_pattern(text, dur) ==
    LET words == Split(text)
    IN IF words = <<>> THEN <<>>
       ELSE TimingsFrom(words, 1, dur, Tenths(1), <<>>)

generate_word_timings(text, dur) ==
    IF Split(text) = <<>> THEN <<>> ELSE analyze_speech_pattern(text, dur)

-----------------------------------------------------------------------------
(* ASS timestamps and the cue synthesizer *)

\* format_time_ass: H:MM:SS.CC, kept as hours, minutes and the seconds field
\* in centiseconds ("%05.2f" rounds the seconds to two decimals)
format_time_ass(seconds) ==
    LET whole == seconds \div Scale
        hours == whole \div 3600
        minutes == (whole % 3600) \div 60
        secs == ((whole % 60) * Scale) + (seconds % Scale)
    IN [h |-> hours, m |-> minutes,
        cs |-> (secs + (Scale \div 200)) \div (Scale \div 100)]

\* the time a timestamp denotes to a player, in centiseconds
Centis(ts) == ts.h * 360000 + ts.m * 6000 + ts.cs

NoTime == [h |-> 0, m |-> 0, cs |-> 0]

\* one line group of the document: a section header with its Format/Style lines
Section(name) == [kind |-> "Section", name |-> name, start |-> NoTime,
                  end |-> NoTime, text |-> <<>>, sent |-> 0]

\* "Dialogue: 0,<start>,<end>,Default,,0,0,0,,<text>"; sent is the index of
\* the sentence group whose loop iteration wrote the line (0: none)
Dialogue(start_ass, end_ass, text, sent_idx) ==
    [kind |-> "Dialogue", name |-> "Default", start |-> start_ass,
     end |-> end_ass, text |-> text, sent |-> sent_idx]

\* the initial ass_content
AssHeader == <<Section("[Script Info]"), Section("[V4+ Styles]")>>

\* the "[Events]" header and its Format line
EventsHeader == Section("[Events]")

HighlightOn == "{\\c&H00FFFF&\\b1}"
HighlightOff == "{\\c&HFFFFFF&\\b0}"
FadeGroupTag == "{\\fad(300,300)}"
BounceGroupTag == "{\\move(384,550,384,450,0,500)\\t(0,250,\\fscx110\\fscy110)\\t(250,500,\\fscx100\\fscy100)}"
FadeAllTag == "{\\fad(800,500)}"
BounceAllTag == "{\\move(384,500,384,384,0,500)\\t(0,300,\\fscx120\\fscy120)\\t(300,500,\\fscx100\\fscy100)}"

\* the words of a list of word timings
WordsOf(timings) == [j \in 1..Len(timings) |-> timings[j].word]

\* " ".join(w["word"] for w in timings)
SentenceText(timings) == Join(WordsOf(timings), <<" ">>)

\* the karaoke frame of word i: the whole sentence, word i highlighted
KaraokeText(timings, i) ==
    Join([j \in 1..Len(timings) |->
             IF j = i THEN <<HighlightOn>> \o timings[j].word \o <<HighlightOff>>
             ELSE timings[j].word], <<" ">>)

\* TypewriterText showing only the word being spoken
TypewriterText_CurrentWord(timings, i) == timings[i].word

\* the typewriter frame of word i: words 1..i
TypewriterText(timings, i) == SentenceText(SubSeq(timings, 1, i))

\* WordEndAss with every cue held to the end of the sentence window
WordEndAss_SentenceEnd(timings, i, end_ass) == end_ass

\* the end timestamp of the cue of word i
WordEndAss(timings, i, end_ass) ==
    IF i < Len(timings)
    THEN format_time_ass(timings[i + 1].start - Millis(1))
    ELSE end_ass

\* VideoEnd without the tail padding
VideoEnd_NoPadding(timings) == timings[Len(timings)].end

\* the tail padding after the last word
VideoEnd(timings) == timings[Len(timings)].end + Millis(2000)

\* reading sentence_word_groups[i + 1][0] of an empty group raises IndexError
EndTimesRaise(groups) == \E i \in 1..(Len(groups) - 1) : groups[i + 1] = <<>>

\* SentenceEndTimes with every sentence held to the end of the video
SentenceEndTimes_AllVideoEnd(groups, video_end) == [i \in 1..Len(groups) |-> video_end]

\* sentence_end_times (defined when EndTimesRaise is false)
SentenceEndTimes(groups, video_end) ==
    [i \in 1..Len(groups) |->
        IF i < Len(groups) THEN groups[i + 1][1].start ELSE video_end]

\* one cue per word, each ending where the next word starts; texts[i] is
\* the text of the cue of word i
PerWordCues(timings, end_ass, sent_idx, texts) ==
    [i \in 1..Len(timings) |->
        Dialogue(format_time_ass(timings[i].start),
                 WordEndAss(timings, i, end_ass), texts[i], sent_idx)]

KaraokeCues(timings, end_ass, sent_idx) ==
    PerWordCues(timings, end_ass, sent_idx,
                [i \in 1..Len(timings) |-> KaraokeText(timings, i)])

TypewriterCues(timings, end_ass, sent_idx) ==
    PerWordCues(timings, end_ass, sent_idx,
                [i \in 1..Len(timings) |-> TypewriterText(timings, i)])

\* one cue over the whole window, the text behind an override tag (if any)
WindowCue(timings, end_ass, sent_idx, tag) ==
    <<Dialogue(format_time_ass(timings[1].start), end_ass,
               tag \o SentenceText(timings), sent_idx)>>

\* GroupCues with an unrecognised effect sent to the karaoke branch
GroupCues_UnknownKaraoke(sentence_words, sentence_end_time, eff, sent_idx) ==
    LET end_ass == format_time_ass(sentence_end_time)
    IN IF eff = "typewriter" THEN TypewriterCues(sentence_words, end_ass, sent_idx)
       ELSE IF eff = "fade"
       THEN WindowCue(sentence_words, end_ass, sent_idx, <<FadeGroupTag>>)
       ELSE IF eff = "bouncing"
       THEN WindowCue(sentence_words, end_ass, sent_idx, <<BounceGroupTag>>)
       ELSE IF eff = "static"
       THEN WindowCue(sentence_words, end_ass, sent_idx, <<>>)
       ELSE KaraokeCues(sentence_words, end_ass, sent_idx)

\* the cue lines one sentence group contributes
GroupCues(sentence_words, sentence_end_time, eff, sent_idx) ==
    LET end_ass == format_time_ass(sentence_end_time)
    IN IF eff = "karaoke" THEN KaraokeCues(sentence_words, end_ass, sent_idx)
       ELSE IF eff = "typewriter" THEN TypewriterCues(sentence_words, end_ass, sent_idx)
       ELSE IF eff = "fade"
       THEN WindowCue(sentence_words, end_ass, sent_idx, <<FadeGroupTag>>)
       ELSE IF eff = "bouncing"
       THEN WindowCue(sentence_words, end_ass, sent_idx, <<BounceGroupTag>>)
       ELSE WindowCue(sentence_words, end_ass, sent_idx, <<>>)

RECURSIVE AllGroupCues(_, _, _, _)
\* the loop over the sentence groups from group k on; empty groups are skipped
AllGroupCues(groups, end_times, eff, k) ==
    IF k > Len(groups) THEN <<>>
    ELSE (IF groups[k] = <<>> THEN <<>>
          ELSE GroupCues(groups[k], end_times[k], eff, k))
         \o AllGroupCues(groups, end_times, eff, k + 1)

\* the branch taken without sentence groups: one window over all the words
OldFallbackCues(timings, eff) ==
    LET end_ass == format_time_ass(VideoEnd(timings))
    IN IF eff = "karaoke" THEN KaraokeCues(timings, end_ass, 0)
       ELSE IF eff = "fade" THEN WindowCue(timings, end_ass, 0, <<FadeAllTag>>)
       ELSE IF eff = "typewriter" THEN TypewriterCues(timings, end_ass, 0)
       ELSE IF eff = "bouncing" THEN WindowCue(timings, end_ass, 0, <<BounceAllTag>>)
       ELSE WindowCue(timings, end_ass, 0, <<>>)

\* PlaceholderCue lasting five seconds
PlaceholderCue_FiveSeconds ==
    Dialogue(format_time_ass(0), format_time_ass(Millis(5000)), <<" ">>, 0)

\* the placeholder cue written for an empty word-timing list
PlaceholderCue == Dialogue(format_time_ass(0), format_time_ass(Millis(3000)), <<" ">>, 0)

\* create_karaoke_subtitles: whether it raised, and the lines of the file it
\* wrote (none when it raised: the file is written by the last statement)
create_karaoke_subtitles(timings, eff, groups) ==
    IF timings = <<>>
    THEN [raised |-> FALSE, lines |-> AssHeader \o <<PlaceholderCue>>]
    ELSE IF groups # <<>>
    THEN IF EndTimesRaise(groups)
         THEN [raised |-> TRUE, lines |-> <<>>]
         ELSE [raised |-> FALSE,
               lines |-> AssHeader
                         \o AllGroupCues(groups,
                                SentenceEndTimes(groups, VideoEnd(timings)), eff, 1)
                         \o <<EventsHeader>>]
    ELSE [raised |-> FALSE,
          lines |-> AssHeader \o OldFallbackCues(timings, eff) \o <<EventsHeader>>]

\* the Dialogue lines of a document, in order
Cues(lines) == SelectSeq(lines, LAMBDA l : l.kind = "Dialogue")

-----------------------------------------------------------------------------
(* Inputs *)

\* the vocabulary the facts of the model are built from: a function word, a
\* fragment too short to be a sentence, a long word ending a sentence, a word
\* with a period inside it, and a word followed by a comma
Vocabulary == { <<"t","o">>,
                <<"H","i",".">>,
                <<"r","a","d","i","o","a","c","t","i","v","e",".">>,
                <<"3",".","5">>,
                <<"w","e","l","l",",">> }

\* Scenario A of the specification
ScenarioA == <<
    "B","a","n","a","n","a","s"," ","a","r","e"," ","r","a",
    "d","i","o","a","c","t","i","v","e","."," ","O","c","t",
    "o","p","u","s","e","s"," ","h","a","v","e"," ","t","h",
    "r","e","e"," ","h","e","a","r","t","s","." >>

\* a fact of five sentences of one long word each
FiveSentences == Join([k \in 1..5 |-> <<"r","a","d","i","o","a","c","t","i","v","e",".">>], <<" ">>)

\* a fact of one sentence whose first three words use up the narration
LinkWord == <<"w","w","w",".","e","x","a","m","p","l","e",".","c","o","m">>

LinkFact == Join(<<LinkWord, LinkWord, LinkWord, <<"i","s">>, <<"u","p",".">> >>, <<" ">>)

\* a fact with surrounding and repeated whitespace
PaddedFact == <<" ","H","i","."," "," ","t","o"," ","w","e","l","l",","," ","t","o","."," ">>

WordLists == UNION { [1..n -> Vocabulary] : n \in 0..MaxWords }

\* the values of the fact query parameter
FactInputs == { Join(ws, <<" ">>) : ws \in WordLists } \cup {ScenarioA, PaddedFact, FiveSentences, LinkFact}

\* the values of the effect query parameter
Effects == {"karaoke", "typewriter", "fade", "bouncing", "static", "unknown_value"}

\* the durations ffprobe reports for the narration: 0.5, 3.0, 6.0 and
\* 3.4555 seconds
ProbeDurations == {Tenths(5), Tenths(30), Tenths(60), HalfMillis(6911)}

\* what the speech synthesis and its fallback can do on one call
TtsOutcomes == [kind : {"probed"}, dur : ProbeDurations]
               \cup [kind : {"probe_failed", "fallback", "fallback_nofile",
                             "fallback_raised", "fallback_raised_nofile",
                             "fallback_reraised"}, dur : {0}]

-----------------------------------------------------------------------------
(* Audio *)

\* len(text.split()) * 0.5 + 1.0
EstimatedDuration(text) == Len(Split(text)) * Tenths(5) + Tenths(10)

\* generate_audio_with_gtts: success and duration, given what gTTS and
\* ffprobe did
generate_audio_with_gtts(text, tts) ==
    IF tts.kind = "probed"
    THEN [success |-> TRUE, duration |-> tts.dur, raised |-> FALSE]
    ELSE IF tts.kind = "probe_failed"
    THEN [success |-> TRUE, duration |-> EstimatedDuration(text), raised |-> FALSE]
    ELSE [success |-> FALSE, duration |-> 0, raised |-> FALSE]

\* generate_audio_fallback: success and duration, given what ffmpeg did.
\* The try path ("fallback", "fallback_nofile") floors the duration at 3.0;
\* the except path, entered when an ffmpeg run of the try path raised, does
\* not, and its own ffmpeg run can leave no file or raise in its turn
generate_audio_fallback(text, tts) ==
    IF tts.kind \in {"fallback", "fallback_nofile"}
    THEN [success |-> tts.kind = "fallback",
          duration |-> Max(EstimatedDuration(text), Tenths(30)),
          raised |-> FALSE]
    ELSE [success |-> tts.kind = "fallback_raised",
          duration |-> EstimatedDuration(text),
          raised |-> tts.kind = "fallback_reraised"]

generate_audio(text, tts) ==
    LET r == generate_audio_with_gtts(text, tts)
    IN IF r.success THEN r ELSE generate_audio_fallback(text, tts)

-----------------------------------------------------------------------------
(* The generate_video request *)

\* the temp files of the request
ImageFile(k) == [kind |-> "image", idx |-> k]
AudioFile == [kind |-> "audio", idx |-> 0]
SubtitleFile == [kind |-> "subtitle", idx |-> 0]
OutputFile == [kind |-> "output", idx |-> 0]

NoAudio == [kind |-> "none", success |-> FALSE, duration |-> 0, raised |-> FALSE]
NoEncoder == [raised |-> FALSE, returncode |-> -1, exists |-> FALSE, size |-> 0]

Init == /\ pc = "idle"
        /\ fact = <<>>
        /\ effect = "karaoke"
        /\ safe_fact = <<>>
        /\ sentences = <<>>
        /\ duration = 0
        /\ word_timings = <<>>
        /\ sentence_timings = <<>>
        /\ sentence_word_groups = <<>>
        /\ word_index = 0
        /\ doc = <<>>
        /\ outcome = "none"
        /\ tasks = <<>>
        /\ results = <<>>
        /\ audio_result = NoAudio
        /\ encoder = NoEncoder
        /\ files = {}
        /\ stream = "none"

\* the request arrives: the fact is validated and split into sentences
Request(f, e) ==
    /\ pc = "idle"
    /\ fact' = f
    /\ effect' = e
    /\ safe_fact' = Take(Strip(f), 300)
    /\ IF safe_fact' = <<>>
       THEN /\ outcome' = "error400"
            /\ pc' = "done"
            /\ UNCHANGED sentences
       ELSE /\ sentences' = split_into_sentences(safe_fact')
            /\ pc' = "images"
            /\ UNCHANGED outcome
    /\ UNCHANGED <<duration, word_timings, sentence_timings,
                   sentence_word_groups, word_index, doc>>
    /\ UNCHANGED env_vars

\* max_workers with one worker per sentence
max_workers_PerSentence(n) == n

\* the size of the worker pool for n sentences
max_workers(n) == IF n < 3 THEN n ELSE 3

Running == {k \in 1..Len(tasks) : tasks[k] = "running"}

Queued == {k \in 1..Len(tasks) : tasks[k] = "queued"}

\* step 1: the pool is created and executor.map submits one task per
\* sentence; a pool of 0 workers raises ValueError
SubmitImages ==
    /\ pc = "images"
    /\ tasks = <<>>
    /\ IF Len(sentences) = 0
       THEN outcome' = "error500" /\ pc' = "done" /\ UNCHANGED tasks
       ELSE /\ tasks' = [k \in 1..Len(sentences) |-> "queued"]
            /\ UNCHANGED <<pc, outcome>>
    /\ UNCHANGED <<fact, effect, safe_fact, sentences, duration, word_timings,
                   sentence_timings, sentence_word_groups, word_index, doc,
                   results, audio_result, encoder, files, stream>>

\* a free worker takes the task at the head of the queue
StartTask ==
    /\ pc = "images"
    /\ Queued # {}
    /\ Cardinality(Running) < max_workers(Len(tasks))
    /\ LET k == CHOOSE q \in Queued : \A j \in Queued : q <= j
       IN tasks' = [tasks EXCEPT ![k] = "running"]
    /\ UNCHANGED <<pc, fact, effect, safe_fact, sentences, duration, word_timings,
                   sentence_timings, sentence_word_groups, word_index, doc,
                   outcome, results, audio_result, encoder, files, stream>>

\* generate_single_image of task k returns (k, True) with its image on
\* disk, or raises
FinishTask(k, ok) ==
    /\ pc \in {"images", "images_failed"}
    /\ k \in Running
    /\ tasks' = [tasks EXCEPT ![k] = IF ok THEN "ok" ELSE "raised"]
    /\ files' = IF ok THEN files \cup {ImageFile(k)} ELSE files
    /\ UNCHANGED <<pc, fact, effect, safe_fact, sentences, duration, word_timings,
                   sentence_timings, sentence_word_groups, word_index, doc,
                   outcome, results, audio_result, encoder, stream>>

\* NextResult taking the latest submitted task that has finished
NextResult_AsCompleted(ts, rs) ==
    LET ready == {k \in 1..Len(ts) : /\ ts[k] \in {"ok", "raised"}
                                     /\ \A j \in 1..Len(rs) : rs[j].i # k}
    IN IF ready = {} THEN Len(rs) + 1
       ELSE CHOOSE k \in ready : \A j \in ready : j <= k

\* the task whose result the iterator of executor.map yields next
NextResult(ts, rs) == Len(rs) + 1

\* list(executor.map(...)) takes the next result; if that task raised, the
\* iterator cancels the tasks still queued and raises in its turn
CollectResult ==
    /\ pc = "images"
    /\ tasks # <<>>
    /\ Len(results) < Len(tasks)
    /\ LET k == NextResult(tasks, results)
       IN /\ tasks[k] \in {"ok", "raised"}
          /\ IF tasks[k] = "ok"
             THEN /\ results' = Append(results, [i |-> k, success |-> TRUE])
                  /\ UNCHANGED <<pc, tasks>>
             ELSE /\ tasks' = [j \in 1..Len(tasks) |->
                                 IF tasks[j] = "queued" THEN "cancelled" ELSE tasks[j]]
                  /\ pc' = "images_failed"
                  /\ UNCHANGED results
    /\ UNCHANGED <<fact, effect, safe_fact, sentences, duration, word_timings,
                   sentence_timings, sentence_word_groups, word_index, doc,
                   outcome, audio_result, encoder, files, stream>>

\* the with block is left: shutdown waits for the running tasks; then either
\* every result is checked, or the exception reaches the handler, which
\* deletes the temp files
PoolShutdown ==
    /\ pc \in {"images", "images_failed"}
    /\ tasks # <<>>
    /\ Running = {}
    /\ \/ pc = "images_failed"
       \/ Len(results) = Len(tasks)
    /\ IF pc = "images" /\ \A j \in 1..Len(results) : results[j].success
       THEN pc' = "audio" /\ UNCHANGED <<outcome, files>>
       ELSE outcome' = "error500" /\ pc' = "done" /\ files' = {}
    /\ UNCHANGED <<fact, effect, safe_fact, sentences, duration, word_timings,
                   sentence_timings, sentence_word_groups, word_index, doc,
                   tasks, results, audio_result, encoder, stream>>

\* step 2: the narration and its duration
GenerateAudio(tts) ==
    /\ pc = "audio"
    /\ LET r == generate_audio(safe_fact, tts)
       IN /\ audio_result' = [kind |-> tts.kind, success |-> r.success,
                              duration |-> r.duration, raised |-> r.raised]
          /\ IF r.raised \/ ~r.success
             THEN /\ outcome' = "error500" /\ pc' = "done"
                  /\ files' = {}
                  /\ UNCHANGED duration
             ELSE /\ duration' = Max(r.duration, Tenths(30))
                  /\ files' = files \cup {AudioFile}
                  /\ pc' = "timings"
                  /\ UNCHANGED outcome
    /\ UNCHANGED <<fact, effect, safe_fact, sentences, word_timings,
                   sentence_timings, sentence_word_groups, word_index, doc,
                   tasks, results, encoder, stream>>

\* step 3: the word timings of the whole fact
GenerateWordTimings ==
    /\ pc = "timings"
    /\ word_timings' = generate_word_timings(safe_fact, duration)
    /\ sentence_timings' = <<>>
    /\ sentence_word_groups' = <<>>
    /\ word_index' = 0
    /\ pc' = "group"
    /\ UNCHANGED <<fact, effect, safe_fact, sentences, duration, doc, outcome>>
    /\ UNCHANGED env_vars

\* one iteration of the grouping loop, for the next sentence
GroupSentence ==
    /\ pc = "group"
    /\ Len(sentence_word_groups) < Len(sentences)
    /\ LET sentence == sentences[Len(sentence_word_groups) + 1]
           sentence_word_count == Len(Split(sentence))
       IN IF word_index + sentence_word_count <= Len(word_timings)
          THEN /\ sentence_timings' =
                     Append(sentence_timings, word_timings[word_index + 1].start)
               /\ sentence_word_groups' =
                     Append(sentence_word_groups,
                            SubSeq(word_timings, word_index + 1,
                                   word_index + sentence_word_count))
               /\ word_index' = word_index + sentence_word_count
          ELSE /\ sentence_timings' =
                     Append(sentence_timings,
                            (duration * Len(sentence_timings)) \div Len(sentences))
               /\ sentence_word_groups' = Append(sentence_word_groups, <<>>)
               /\ UNCHANGED word_index
    /\ UNCHANGED <<pc, fact, effect, safe_fact, sentences, duration,
                   word_timings, doc, outcome>>
    /\ UNCHANGED env_vars

\* step 4: the subtitle document
CreateSubtitles ==
    /\ pc = "group"
    /\ Len(sentence_word_groups) = Len(sentences)
    /\ LET r == create_karaoke_subtitles(word_timings, effect, sentence_word_groups)
       IN IF r.raised
          THEN /\ outcome' = "error500" /\ pc' = "done" /\ files' = {}
               /\ UNCHANGED doc
          ELSE /\ doc' = r.lines /\ pc' = "compose"
               /\ files' = files \cup {SubtitleFile}
               /\ UNCHANGED outcome
    /\ UNCHANGED <<fact, effect, safe_fact, sentences, duration, word_timings,
                   sentence_timings, sentence_word_groups, word_index,
                   tasks, results, audio_result, encoder, stream>>

\* what one run of the encoder can do: exit 0 with a full file, exit 0 with
\* a file of 1000 bytes or with none, a non-zero exit with or without a
\* file, a timeout with or without a partial file
EncoderOutcomes ==
    { [raised |-> FALSE, returncode |-> 0, exists |-> TRUE, size |-> 1001],
      [raised |-> FALSE, returncode |-> 0, exists |-> TRUE, size |-> 1000],
      [raised |-> FALSE, returncode |-> 0, exists |-> FALSE, size |-> 0],
      [raised |-> FALSE, returncode |-> 1, exists |-> TRUE, size |-> 1001],
      [raised |-> FALSE, returncode |-> 1, exists |-> FALSE, size |-> 0],
      [raised |-> TRUE, returncode |-> 0, exists |-> TRUE, size |-> 1001],
      [raised |-> TRUE, returncode |-> 0, exists |-> FALSE, size |-> 0] }

\* create_video_with_images_and_subtitles trusting any output file
create_video_with_images_and_subtitles_AnyFile(enc) == enc.exists

\* the value create_video_with_images_and_subtitles returns
create_video_with_images_and_subtitles(enc) ==
    IF enc.raised THEN FALSE
    ELSE IF enc.returncode # 0 THEN FALSE
    ELSE enc.exists /\ enc.size > 1000

\* step 5: the encoder run.  On success the images, the audio and the
\* subtitle document are deleted and the response is built around the
\* iterfile generator; otherwise the handler deletes every temp file
ComposeVideo(enc) ==
    /\ pc = "compose"
    /\ encoder' = enc
    /\ IF create_video_with_images_and_subtitles(enc)
       THEN /\ files' = (IF enc.exists THEN {OutputFile} ELSE {})
            /\ stream' = "pending"
            /\ outcome' = "video"
            /\ pc' = "respond"
       ELSE /\ files' = {}
            /\ outcome' = "error500"
            /\ pc' = "done"
            /\ UNCHANGED stream
    /\ UNCHANGED <<fact, effect, safe_fact, sentences, duration, word_timings,
                   sentence_timings, sentence_word_groups, word_index, doc,
                   tasks, results, audio_result>>

\* the server asks the generator for the first chunk: iterfile enters its
\* try block and opens the output file
StartStream ==
    /\ pc = "respond"
    /\ stream = "pending"
    /\ stream' = "streaming"
    /\ UNCHANGED <<pc, fact, effect, safe_fact, sentences, duration, word_timings,
                   sentence_timings, sentence_word_groups, word_index, doc,
                   outcome, tasks, results, audio_result, encoder, files>>

\* the body ends: the file is exhausted (completed) or the generator is
\* closed at a yield because the client went away; either way the finally
\* block of iterfile unlinks the output file
EndStream(completed) ==
    /\ pc = "respond"
    /\ stream = "streaming"
    /\ stream' = IF completed THEN "sent" ELSE "abandoned"
    /\ files' = files \ {OutputFile}
    /\ pc' = "done"
    /\ UNCHANGED <<fact, effect, safe_fact, sentences, duration, word_timings,
                   sentence_timings, sentence_word_groups, word_index, doc,
                   outcome, tasks, results, audio_result, encoder>>

\* the response is discarded before its body is asked for: a generator that
\* was never started has not entered its try block, so closing or
\* collecting it runs no finally block
DropResponse ==
    /\ pc = "respond"
    /\ stream = "pending"
    /\ stream' = "dropped"
    /\ pc' = "done"
    /\ UNCHANGED <<fact, effect, safe_fact, sentences, duration, word_timings,
                   sentence_timings, sentence_word_groups, word_index, doc,
                   outcome, tasks, results, audio_result, encoder, files>>

Next == \/ \E f \in FactInputs, e \in Effects : Request(f, e)
        \/ SubmitImages
        \/ StartTask
        \/ \E k \in 1..Len(tasks), ok \in BOOLEAN : FinishTask(k, ok)
        \/ CollectResult
        \/ PoolShutdown
        \/ \E tts \in TtsOutcomes : GenerateAudio(tts)
        \/ GenerateWordTimings
        \/ GroupSentence
        \/ CreateSubtitles
        \/ \E enc \in EncoderOutcomes : ComposeVideo(enc)
        \/ StartStream
        \/ \E completed \in BOOLEAN : EndStream(completed)
        \/ DropResponse

Spec == Init /\ [][Next]_vars

-----------------------------------------------------------------------------
(* The estimator and the synthesizer called on their own *)

\* the durations handed to the estimator, in tenths of a second
EstimatorTenths == {1, 2, 30, 60}

\* the ways a caller can cut the word timings into sentence groups: none
\* given, one group, or two groups, with or without an empty group (the
\* placeholder of a sentence that got no words) before, between or after
GroupInputs(timings) ==
    {<<>>, <<timings>>, << <<>>, timings >>, << timings, <<>> >>}
    \cup { <<SubSeq(timings, 1, k), SubSeq(timings, k + 1, Len(timings))>> :
              k \in 1..(Len(timings) - 1) }
    \cup { <<SubSeq(timings, 1, k), <<>>, SubSeq(timings, k + 1, Len(timings))>> :
              k \in 1..(Len(timings) - 1) }

InitFn == /\ pc = "fn_start"
          /\ fact \in FactInputs \cup {<<>>}
          /\ effect \in Effects
          /\ duration \in { Tenths(k) : k \in EstimatorTenths }
          /\ safe_fact = <<>>
          /\ sentences = <<>>
          /\ word_timings = <<>>
          /\ sentence_timings = <<>>
          /\ sentence_word_groups = <<>>
          /\ word_index = 0
          /\ doc = <<>>
          /\ outcome = "none"
          /\ tasks = <<>>
          /\ results = <<>>
          /\ audio_result = NoAudio
          /\ encoder = NoEncoder
          /\ files = {}
          /\ stream = "none"

\* generate_word_timings(fact, duration)
FnEstimate ==
    /\ pc = "fn_start"
    /\ word_timings' = generate_word_timings(fact, duration)
    /\ pc' = "fn_timed"
    /\ UNCHANGED <<fact, effect, safe_fact, sentences, duration,
                   sentence_timings, sentence_word_groups, word_index, doc, outcome>>
    /\ UNCHANGED env_vars

\* create_karaoke_subtitles(word_timings, path, effect, groups)
FnSynthesize(groups) ==
    /\ pc = "fn_timed"
    /\ sentence_word_groups' = groups
    /\ LET r == create_karaoke_subtitles(word_timings, effect, groups)
       IN /\ doc' = r.lines
          /\ outcome' = IF r.raised THEN "raised" ELSE "written"
    /\ pc' = "fn_done"
    /\ UNCHANGED <<fact, effect, safe_fact, sentences, duration, word_timings,
                   sentence_timings, word_index>>
    /\ UNCHANGED env_vars

NextFn == \/ FnEstimate
          \/ \E groups \in GroupInputs(word_timings) : FnSynthesize(groups)

SpecFn == InitFn /\ [][NextFn]_vars

-----------------------------------------------------------------------------
(* Properties *)

\* the number of whitespace-delimited tokens of a text: the positions where
\* a token begins
TokenCount(text) ==
    Cardinality({ i \in 1..Len(text) :
                    /\ text[i] \notin Whitespace
                    /\ (i = 1 \/ text[i - 1] \in Whitespace) })

\* the estimator has run on its own
Estimated == pc \in {"fn_timed", "fn_done"}

\* the grouping loop of generate_video has processed every sentence
GroupingDone == \/ pc = "group" /\ Len(sentence_word_groups) = Len(sentences)
                \/ pc \in {"compose", "respond"}
                \/ pc = "done" /\ word_timings # <<>>

\* the grouping loop took its alignment-mismatch branch for some sentence
MismatchTaken == \E k \in 1..Len(sentence_word_groups) : sentence_word_groups[k] = <<>>

RECURSIVE SumLen(_)
SumLen(groups) == IF groups = <<>> THEN 0 ELSE Len(Head(groups)) + SumLen(Tail(groups))

\* C1: for every non-empty text and every totalDuration > 0 the estimator
\* returns one entry per whitespace-delimited token, the entries' starts are
\* non-decreasing, and the last entry ends at or before totalDuration.
C1_EstimatorContract ==
    (Estimated /\ TokenCount(fact) > 0 /\ duration > 0) =>
        /\ Len(word_timings) = TokenCount(fact)
        /\ \A i \in 1..(Len(word_timings) - 1) :
              word_timings[i].start <= word_timings[i + 1].start
        /\ word_timings[Len(word_timings)].end <= duration

\* C5: when the grouping loop never takes its mismatch branch, the lengths
\* of the sentence word groups add up to the number of word timings.
C5_GroupsCoverTimings ==
    (GroupingDone /\ ~MismatchTaken) =>
        SumLen(sentence_word_groups) = Len(word_timings)

\* no candidate sentence of the text is longer than 5 characters once trimmed
NoValidSentence(text) ==
    \A k \in 1..Len(re_split(text)) : Len(Strip(re_split(text)[k])) <= 5

\* C6: a text with no valid sentence is segmented into one sentence, the
\* whole text, and the request does not fail for want of sentences.
C6_WholeTextSentence ==
    (pc # "idle" /\ safe_fact # <<>> /\ NoValidSentence(safe_fact)) =>
        /\ sentences = <<safe_fact>>
        /\ ~(pc = "done" /\ outcome = "error500" /\ duration = 0)

\* C7: every word timing of a request starts at or after 0 and ends strictly
\* after it starts.
C7_PositiveWordDurations ==
    \A i \in 1..Len(word_timings) :
        word_timings[i].start >= 0 /\ word_timings[i].end > word_timings[i].start

\* the synthesizer has written the subtitle document of the request
SubtitlesWritten == pc \in {"compose", "respond"} \/ (pc = "done" /\ doc # <<>>)

\* the synthesizer has run on its own and written its document
Synthesized == pc = "fn_done" /\ outcome = "written"

\* the cues the loop iteration of sentence group k wrote
CuesOf(k) == SelectSeq(Cues(doc), LAMBDA c : c.sent = k)

\* a timestamp in ticks
TicksOf(ts) == Centis(ts) * (Scale \div 100)

\* each cue ends at or before the start of the cue after it
NonOverlapping(cues) ==
    \A j \in 1..(Len(cues) - 1) : Centis(cues[j].end) <= Centis(cues[j + 1].start)

C3_KaraokeCues ==
    (SubtitlesWritten /\ effect = "karaoke") =>
        /\ \A k \in 1..Len(sentence_word_groups) :
              Len(CuesOf(k)) = Len(sentence_word_groups[k])
        /\ NonOverlapping(Cues(doc))

C3_Witness ==
    /\ SubtitlesWritten /\ effect = "karaoke"
    /\ Len(sentence_word_groups) = 2
    /\ Len(sentence_word_groups[1]) >= 2
    /\ Len(Cues(doc)) >= 3

\* the facts of Scenario A that hold whatever the word count
ScenarioA_Common ==
    /\ Len(sentences) = 2
    /\ word_timings[1].start = Tenths(1)
    /\ word_timings[Len(word_timings)].end <= Tenths(60)
    /\ Len(sentence_word_groups) = 2
    /\ NonOverlapping(Cues(doc))

ScenarioA_Run ==
    /\ SubtitlesWritten /\ effect = "karaoke"
    /\ safe_fact = ScenarioA /\ duration = Tenths(60)

\* C4 as stated: Scenario A yields 2 sentences, 8 word timings from 0.1 to
\* at most 6.0, 2 groups of 4 words each and 8 non-overlapping karaoke cues.
C4_ScenarioA_Eight ==
    ScenarioA_Run =>
        /\ ScenarioA_Common
        /\ Len(word_timings) = 8
        /\ \A k \in 1..2 : Len(sentence_word_groups[k]) = 4
        /\ Len(Cues(doc)) = 8

\* C4 amended: Scenario A yields 2 sentences, 7 word timings from 0.1 to at
\* most 6.0, a group of 3 words and a group of 4 words, and 7 non-overlapping
\* karaoke cues.
C4_ScenarioA_Seven ==
    ScenarioA_Run =>
        /\ ScenarioA_Common
        /\ Len(word_timings) = 7
        /\ Len(sentence_word_groups[1]) = 3
        /\ Len(sentence_word_groups[2]) = 4
        /\ Len(Cues(doc)) = 7

C4_Witness == ScenarioA_Run /\ pc = "compose"

\* the end of the window of sentence group k: the start of the next group,
\* or the end of the last word plus the tail padding
WindowEnd(k) ==
    IF k < Len(sentence_word_groups)
    THEN sentence_word_groups[k + 1][1].start
    ELSE word_timings[Len(word_timings)].end + Millis(2000)

\* the last cue written for sentence group k
LastCueOf(k) == CuesOf(k)[Len(CuesOf(k))]

\* C8 as stated: for every effect, the last cue of a non-empty sentence
\* group ends at that group's windowEnd.
C8_LastCueEndsAtWindowEnd ==
    SubtitlesWritten =>
        \A k \in 1..Len(sentence_word_groups) :
            sentence_word_groups[k] # <<>> =>
                /\ CuesOf(k) # <<>>
                /\ TicksOf(LastCueOf(k).end) = WindowEnd(k)

\* C8 amended: for every effect, the last cue of a non-empty sentence group
\* ends at that group's windowEnd rounded to the centisecond by
\* format_time_ass, so within half a centisecond of it.
C8_LastCueEndsAtRoundedWindowEnd ==
    SubtitlesWritten =>
        \A k \in 1..Len(sentence_word_groups) :
            sentence_word_groups[k] # <<>> =>
                /\ CuesOf(k) # <<>>
                /\ LastCueOf(k).end = format_time_ass(WindowEnd(k))
                /\ TicksOf(LastCueOf(k).end) - WindowEnd(k) <= Millis(5)
                /\ WindowEnd(k) - TicksOf(LastCueOf(k).end) <= Millis(5)

C8_Witness ==
    /\ SubtitlesWritten /\ effect = "fade"
    /\ Len(sentence_word_groups) = 2
    /\ TicksOf(LastCueOf(1).end) # WindowEnd(1)

\* the final cue of the document: the last cue of the last sentence group
FinalCue == Cues(doc)[Len(Cues(doc))]

Blank(text) == \A i \in 1..Len(text) : text[i] \in Whitespace

\* C10: for an empty text the estimator returns no word timing, and given
\* no word timing the synthesizer writes exactly one cue, from 0:00:00.00 to
\* 0:00:03.00 with blank text, whatever the effect.
C10_EmptyTextPlaceholder ==
    /\ (Estimated /\ fact = <<>>) => word_timings = <<>>
    /\ (Synthesized /\ word_timings = <<>>) =>
          /\ Len(Cues(doc)) = 1
          /\ Cues(doc)[1].start = [h |-> 0, m |-> 0, cs |-> 0]
          /\ Cues(doc)[1].end = [h |-> 0, m |-> 0, cs |-> 300]
          /\ Blank(Cues(doc)[1].text)

C10_Witness ==
    /\ Synthesized /\ fact = <<>> /\ effect = "bouncing"
    /\ sentence_word_groups = << <<>> >>
    /\ Len(Cues(doc)) = 1


\* xs is the sequence ys cut after some of its elements, and is shorter
StrictPrefix(xs, ys) == Len(xs) < Len(ys) /\ xs = SubSeq(ys, 1, Len(xs))

\* C11: with effect = typewriter, of two consecutive cues of a sentence
\* group the text of the earlier is a strict prefix, by words, of the text
\* of the later: cue i shows the first i words of the group and nothing else.
C11_TypewriterPrefix ==
    (SubtitlesWritten /\ effect = "typewriter") =>
        \A k \in 1..Len(sentence_word_groups) :
            /\ \A i \in 1..Len(CuesOf(k)) :
                  Split(CuesOf(k)[i].text) = SubSeq(WordsOf(sentence_word_groups[k]), 1, i)
            /\ \A i \in 1..(Len(CuesOf(k)) - 1) :
                  StrictPrefix(Split(CuesOf(k)[i].text), Split(CuesOf(k)[i + 1].text))

C11_Witness ==
    /\ SubtitlesWritten /\ effect = "typewriter"
    /\ Len(sentence_word_groups) = 2
    /\ Len(CuesOf(2)) >= 2


\* the pause multiplier, in tenths, that the trailing punctuation of the
\* word before word i calls for
TrailingPause(words, i) ==
    IF i = 1 THEN 10
    ELSE LET prev == words[i - 1]
         IN IF prev[Len(prev)] \in {",", ";"} THEN 13
            ELSE IF prev[Len(prev)] \in {".", "!", "?"} THEN 16
            ELSE 10

\* the duration word i gets under pause multiplier pause (in tenths) when
\* it starts at start: the product, clamped at duration - 0.1
DurationUnder(words, i, pause, start) ==
    LET product == ((duration \div Len(words)) \div 100) * Complexity(words[i]) * pause
    IN IF start + product > duration - Tenths(1)
       THEN duration - start - Tenths(1)
       ELSE product

\* C15: the pause multiplier applied to a word is fixed by the trailing
\* punctuation of the word before it alone (1.3 after ',' or ';', 1.6 after
\* '.', '!' or '?', else 1.0, and 1.0 for the first word), so every word
\* lasts what that multiplier gives it.
C15_PauseFromTrailingPunctuation ==
    (pc \in {"group", "compose", "respond", "done"} /\ word_timings # <<>>) =>
        \A i \in 1..Len(word_timings) :
            word_timings[i].end - word_timings[i].start =
                DurationUnder(WordsOf(word_timings), i,
                              TrailingPause(WordsOf(word_timings), i),
                              word_timings[i].start)


\* C19: in every subtitle document written, the "[Events]" header (with its
\* Format line) is present and comes before every Dialogue line.
C19_EventsHeaderFirst ==
    (SubtitlesWritten \/ Synthesized) =>
        \E e \in 1..Len(doc) :
            /\ doc[e] = EventsHeader
            /\ \A l \in 1..Len(doc) : doc[l].kind = "Dialogue" => e < l

\* C20: the k-th sentence word group holds exactly the whitespace tokens of
\* the k-th sentence, in order.
C20_GroupIsItsSentence ==
    GroupingDone =>
        \A k \in 1..Len(sentence_word_groups) :
            WordsOf(sentence_word_groups[k]) = Split(sentences[k])


\* the start of the first non-empty sentence group after group k, or the
\* end of the last word plus the tail padding if there is none
NextWindowStart(k) ==
    LET later == { j \in (k + 1)..Len(sentence_word_groups) :
                      sentence_word_groups[j] # <<>> }
    IN IF later = {}
       THEN word_timings[Len(word_timings)].end + Millis(2000)
       ELSE sentence_word_groups[CHOOSE j \in later : \A h \in later : j <= h][1].start

\* C16: given sentence groups of which one is empty, the synthesizer still
\* completes; the empty group contributes no cue and the group before it
\* ends where the next non-empty group starts (or at the final window end).
C16_EmptyGroupSkipped ==
    (pc = "fn_done" /\ word_timings # <<>>
        /\ \E k \in 1..Len(sentence_word_groups) : sentence_word_groups[k] = <<>>) =>
        /\ outcome = "written"
        /\ \A k \in 1..Len(sentence_word_groups) :
              IF sentence_word_groups[k] = <<>>
              THEN CuesOf(k) = <<>>
              ELSE /\ CuesOf(k) # <<>>
                   /\ LastCueOf(k).end = format_time_ass(NextWindowStart(k))


\* C18: every cue written has start <= end, whatever the effect, also when
\* consecutive words start at the same time because the clamp fired.
C18_NoNegativeCue ==
    SubtitlesWritten =>
        \A j \in 1..Len(Cues(doc)) :
            Centis(Cues(doc)[j].start) <= Centis(Cues(doc)[j].end)


\* speech synthesis failed and generate_audio went to its fallback
TtsFailed == audio_result.kind \in {"fallback", "fallback_nofile", "fallback_raised",
                                    "fallback_raised_nofile", "fallback_reraised"}

\* C12: when speech synthesis fails, generate_audio returns a fallback track
\* whose reported duration is max(wordCount * 0.5 + 1.0, 3.0) on every path
\* through generate_audio_fallback, without raising and without failing the
\* request.
C12_FallbackDuration ==
    TtsFailed =>
        /\ ~audio_result.raised
        /\ audio_result.success
        /\ audio_result.duration = Max(EstimatedDuration(safe_fact), Tenths(30))
        /\ pc # "done" \/ duration > 0


\* the stages of a request that follow the image step
AfterImages == pc \in {"audio", "timings", "group", "compose", "respond"}

\* C17: at most 3 image tasks run at a time; in every interleaving result k
\* is the result of task k (sentence k, image path k); audio generation and
\* composition start only after every image task has finished; a failed
\* image task fails the request.
C17_OrderedBoundedPool ==
    /\ Cardinality(Running) <= 3
    /\ \A k \in 1..Len(results) : results[k].i = k /\ tasks[k] = "ok"
    /\ (AfterImages \/ outcome = "video") =>
           /\ Len(results) = Len(sentences)
           /\ \A k \in 1..Len(tasks) : tasks[k] = "ok"
    /\ (AfterImages /\ pc # "respond") =>
           \A k \in 1..Len(sentences) : ImageFile(k) \in files
    /\ (pc = "done" /\ \E k \in 1..Len(tasks) : tasks[k] = "raised") =>
           outcome = "error500"

\* five tasks on three workers, the first result collected while a later
\* task has finished before an earlier one
C17_Witness ==
    /\ Len(tasks) > 3
    /\ Len(results) >= 1
    /\ \E j, k \in 1..Len(tasks) : j < k /\ tasks[j] = "running" /\ tasks[k] = "ok"
    /\ Queued # {}


\* the encoder produced a complete video: exit code 0 and a file of more
\* than 1000 bytes
EncoderSucceeded ==
    /\ ~encoder.raised
    /\ encoder.returncode = 0
    /\ encoder.exists /\ encoder.size > 1000

\* C14: a request ends either with a response streaming the video that the
\* encoder produced with exit code 0 and more than 1000 bytes, or with an
\* explicit error; when the encoder fails, times out or leaves a missing or
\* undersized file the request fails and no video bytes are returned.
C14_VideoOrError ==
    /\ pc \in {"respond", "done"} => outcome \in {"video", "error400", "error500"}
    /\ outcome = "video" => EncoderSucceeded /\ stream # "none"
    /\ outcome \in {"error400", "error500"} => pc = "done" /\ stream = "none"
    /\ (pc \in {"respond", "done"} /\ encoder # NoEncoder /\ ~EncoderSucceeded) =>
           outcome = "error500" /\ stream = "none"
    /\ stream = "sent" => outcome = "video" /\ EncoderSucceeded

\* the encoder exited non-zero leaving a full-sized file, and the request
\* has failed
C14_Witness ==
    /\ pc = "done"
    /\ encoder.returncode = 1 /\ encoder.exists /\ encoder.size > 1000
    /\ outcome = "error500"


\* C13: on every exit path of a request (success, a failure inside the
\* pipeline, a response whose body is never started or is abandoned) none
\* of its temp files is left on disk once the request is over.
C13_NoTempFileLeft ==
    pc = "done" => files = {}

=============================================================================
